---- MODULE Spec2Model ----
(***************************************************************************)
(* AudioFileValidator of sxs-audio-file-validation.py: the staging of an   *)
(* uploaded file into a temporary file, the primary decode (librosa), the  *)
(* secondary probe (soundfile), the fallback WAV decode (wave), the        *)
(* duration policy, and cleanup of the temporary files of an instance.     *)
(*                                                                         *)
(* A duration is the exact quotient samples / sample_rate, kept as the     *)
(* pair [n, r]; the sample rates of the model are small enough that the    *)
(* float quotient compares with 1.0 and 60.0, and formats to one decimal,  *)
(* exactly as the rational does.                                           *)
(***************************************************************************)
EXTENDS Integers, Sequences, FiniteSets

VARIABLES
    scope,        \* "none" | "open" | "closed": the with-block of the instance
    temp_files,   \* self.temp_files: sequence of temp file paths
    disk,         \* the temp file paths that exist on storage
    nextPath,     \* the next unique name NamedTemporaryFile hands out
    calls,        \* validate_audio_file calls started so far
    pc,           \* position of the validate_audio_file call in flight
    audio_file,   \* the uploaded file of the call: [ext, size]
    temp_file,    \* temp_file.name of the call, NoPath before it is created
    written,      \* bytes in the temp file of the call
    result,       \* the result dict of the call
    trace,        \* the operations the call attempted, with their outcome
    prev,         \* the upload, trace and result of the call repeated
    other,        \* the call of a second thread while it is not running
    sweep,        \* position of a cleanup() running beside a call
    session_state,         \* st.session_state: the keys main() sets
    verification_results,  \* the dict the Verify handler is filling
    loop          \* position of the Verify handler in its two for loops

vars == <<scope, temp_files, disk, nextPath, calls, pc, audio_file,
          temp_file, written, result, trace, prev, other, sweep,
          session_state, verification_results, loop>>

\* the state of a second thread on the instance
RaceVars == <<other, sweep>>

\* the state of main() around the validator
MainVars == <<session_state, verification_results, loop>>

\* ---------------------------------------------------------------- bounds
MaxCalls == 2
MaxRate == 4
Window == 2

\* ------------------------------------------------------------- constants
MIN_AUDIO_DURATION == 60
HardFloor == 1
NoPath == 0

\* ---------------------------------------------------------------- inputs
Extensions == {".wav", ".WAV", ".Mp3"}
Sizes == {0, 1}
Rates == 1..MaxRate
HeaderRates == 0..MaxRate
Channels == {1, 2}

\* sample counts around the two thresholds of the duration policy
SampleCounts(rate) ==
    {n \in 0..(MIN_AUDIO_DURATION * MaxRate + Window) :
        \/ n <= HardFloor * rate + Window
        \/ /\ n >= MIN_AUDIO_DURATION * rate - Window
           /\ n <= MIN_AUDIO_DURATION * rate + Window}

\* str.lower() on the extensions of the model
Lower(ext) ==
    CASE ext = ".WAV" -> ".wav"
      [] ext = ".Mp3" -> ".mp3"
      [] OTHER -> ext

\* ------------------------------------------------------------- durations
Duration(n, r) == [n |-> n, r |-> r]

\* duration < k, for the float quotient n / r
DurLess(d, k) == d.n < k * d.r

\* f"{duration:.1f}": the quotient rounded to tenths, ties to even
Fmt1(d) ==
    LET q == (10 * d.n) \div d.r
        rem == (10 * d.n) % d.r
    IN  IF 2 * rem < d.r THEN q
        ELSE IF 2 * rem > d.r THEN q + 1
        ELSE IF q % 2 = 0 THEN q ELSE q + 1

\* f"{MIN_AUDIO_DURATION}" is "60.0", in tenths
FmtMin == 10 * MIN_AUDIO_DURATION

\* --------------------------------------------------------------- entries
\* an entry of errors or warnings: the fixed text, the str(e) of the
\* exception it reports, and the numbers it names (in tenths)
Entry(msg, detail, shown, minimum) ==
    [msg |-> msg, detail |-> detail, shown |-> shown, minimum |-> minimum]

Msg(msg) == Entry(msg, "", 0, 0)

EmptyError == Msg("Audio file is empty or corrupted")
NoDataError == Msg("Audio file contains no readable audio data")
ShortError == Msg("Audio duration is less than 1 second")
NoFramesError == Msg("Cannot read audio frames from file")
FallbackWarning == Msg("Validated using fallback WAV reader")
ShortWarning(d) ==
    Entry("Audio duration is below recommended minimum", "", Fmt1(d), FmtMin)
LoadError(e) == Entry("Audio loading failed", e, 0, 0)
ProbeWarning(e) == Entry("Secondary format validation warning", e, 0, 0)
WavError(e) == Entry("Fallback validation also failed", e, 0, 0)
UnexpectedError(e) == Entry("Unexpected validation error", e, 0, 0)

NewResult ==
    [is_valid |-> FALSE, duration |-> Duration(0, 1), sample_rate |-> 0,
     channels |-> 0, format |-> "", errors |-> <<>>, warnings |-> <<>>]

AddError(r, e) == [r EXCEPT !.errors = Append(@, e)]
AddWarning(r, w) == [r EXCEPT !.warnings = Append(@, w)]

\* an operation the call attempted: its outcome, the str(e) it raised and
\* the values a decoder read
Decoded(op, res, why, n, rate, ch) ==
    [op |-> op, res |-> res, why |-> why, n |-> n, rate |-> rate, ch |-> ch]

Event(op, res, why) == Decoded(op, res, why, 0, 0, 0)

\* ------------------------------------------------------------ exceptions
\* HandlerOf without the inner try/except of lines 387-395: an exception of
\* the probe reaches the handler of librosa.load
HandlerOf_ProbeUnguarded(site) ==
    CASE site \in {"seek", "create", "write", "check"} -> "outer"
      [] site = "load" -> "librosa"
      [] site = "probe" -> "librosa"
      [] site = "wave" -> "wav"

\* HandlerOf without the outer try/except of lines 356-423
HandlerOf_NoOuter(site) ==
    CASE site \in {"seek", "create", "write", "check"} -> "none"
      [] site = "load" -> "librosa"
      [] site = "probe" -> "sf"
      [] site = "wave" -> "wav"

\* the except clause that encloses each raising site
HandlerOf(site) ==
    CASE site \in {"seek", "create", "write", "check"} -> "outer"
      [] site = "load" -> "librosa"
      [] site = "probe" -> "sf"
      [] site = "wave" -> "wav"

\* Caught with the probe's handler appending to errors
Caught_ProbeAsError(site, e, r) ==
    CASE HandlerOf(site) = "outer" -> AddError(r, UnexpectedError(e))
      [] HandlerOf(site) = "librosa" -> AddError(r, LoadError(e))
      [] HandlerOf(site) = "sf" -> AddError(r, ProbeWarning(e))
      [] HandlerOf(site) = "wav" -> AddError(r, WavError(e))
      [] OTHER -> r

\* Caught with the fallback handler assigning errors instead of appending
Caught_WavOverwrites(site, e, r) ==
    CASE HandlerOf(site) = "outer" -> AddError(r, UnexpectedError(e))
      [] HandlerOf(site) = "librosa" -> AddError(r, LoadError(e))
      [] HandlerOf(site) = "sf" -> AddWarning(r, ProbeWarning(e))
      [] HandlerOf(site) = "wav" -> [r EXCEPT !.errors = <<WavError(e)>>]
      [] OTHER -> r

\* the result after the handler of the site has recorded exception e
Caught(site, e, r) ==
    CASE HandlerOf(site) = "outer" -> AddError(r, UnexpectedError(e))
      [] HandlerOf(site) = "librosa" -> AddError(r, LoadError(e))
      [] HandlerOf(site) = "sf" -> AddWarning(r, ProbeWarning(e))
      [] HandlerOf(site) = "wav" -> AddError(r, WavError(e))
      [] OTHER -> r

\* Resume with the outer handler re-raising after recording the error
Resume_OuterReraises(site) ==
    CASE HandlerOf(site) = "outer" -> "raised"
      [] HandlerOf(site) = "librosa" -> "fallback"
      [] HandlerOf(site) = "sf" -> "mark_valid"
      [] HandlerOf(site) = "wav" -> "return"
      [] OTHER -> "raised"

\* Resume with the fallback handler retrying the primary decode
Resume_RetryPrimary(site) ==
    CASE HandlerOf(site) = "outer" -> "return"
      [] HandlerOf(site) = "librosa" -> "fallback"
      [] HandlerOf(site) = "sf" -> "mark_valid"
      [] HandlerOf(site) = "wav" -> "primary"
      [] OTHER -> "raised"

\* Resume with the probe's handler returning instead of falling through
\* to line 397
Resume_ProbeReturns(site) ==
    CASE HandlerOf(site) = "outer" -> "return"
      [] HandlerOf(site) = "librosa" -> "fallback"
      [] HandlerOf(site) = "sf" -> "return"
      [] HandlerOf(site) = "wav" -> "return"
      [] OTHER -> "raised"

\* where control continues after the handler of the site
Resume(site) ==
    CASE HandlerOf(site) = "outer" -> "return"
      [] HandlerOf(site) = "librosa" -> "fallback"
      [] HandlerOf(site) = "sf" -> "mark_valid"
      [] HandlerOf(site) = "wav" -> "return"
      [] OTHER -> "raised"

\* ------------------------------------------------------------- main()
\* the files st.file_uploader hands over: name and content size
UploadNames == {"a.wav", "b.Mp3"}
Uploads == [name : UploadNames, size : Sizes]

\* os.path.splitext(name)[1]
Ext(name) ==
    CASE name = "a.wav" -> ".wav"
      [] name = "b.Mp3" -> ".Mp3"

\* the lists an uploader can hold: files of distinct names
UploadLists ==
    {l \in UNION {[1..k -> Uploads] : k \in 0..(MaxCalls - 1)} :
        \A i, j \in DOMAIN l : l[i].name = l[j].name => i = j}

EmptyDict == [name \in {} |-> NewResult]
NoResults == [model1 |-> EmptyDict, model2 |-> EmptyDict]

\* the pages of the sidebar radio, lines 617-629
MetadataAudio == "Metadata & Audio"
AudioVerification == "Audio Verification"
SummarySubmission == "Summary & Submission"
Help == "Help"
nav_options == {MetadataAudio, AudioVerification, SummarySubmission, Help}

\* lines 585-604 and 1324-1334: the keys main() initialises
InitialKeys ==
    [current_page |-> MetadataAudio, metadata_saved |-> FALSE,
     audio_saved |-> FALSE, email_validated |-> FALSE,
     drive_url_generated |-> FALSE, drive_url |-> "", user_email |-> "",
     audio_verification_complete |-> FALSE, submission_complete |-> FALSE]

\* st.session_state after the first run of main()
NewSession == InitialKeys

\* d with the keys of upd assigned
Merge(d, upd) ==
    [k \in DOMAIN d \cup DOMAIN upd |->
        IF k \in DOMAIN upd THEN upd[k] ELSE d[k]]

\* d.get(key, default)
Get(d, key, default) == IF key \in DOMAIN d THEN d[key] ELSE default

Idle == [model |-> "", i |-> 0, at |-> "idle"]

\* no call is being repeated; shared names the lists of the kept result
\* that are the same objects as the lists of the result being built
NoPrev ==
    [set |-> FALSE, audio_file |-> [ext |-> ".wav", size |-> 0],
     trace |-> <<>>, result |-> NewResult, shared |-> {}]

\* a thread that has not called validate_audio_file
NoCall ==
    [pc |-> "idle", audio_file |-> [ext |-> ".wav", size |-> 0],
     temp_file |-> NoPath, written |-> 0, result |-> NewResult,
     trace |-> <<>>]

\* no cleanup() is running beside a call; i is the index of its for loop,
\* tried the paths the loop has come to
NoSweep == [at |-> "idle", i |-> 0, tried |-> {}]

\* ------------------------------------------------------------------ Init
Init ==
    /\ scope = "none"
    /\ temp_files = <<>>
    /\ disk = {}
    /\ nextPath = 1
    /\ calls = 0
    /\ pc = "idle"
    /\ audio_file = [ext |-> ".wav", size |-> 0]
    /\ temp_file = NoPath
    /\ written = 0
    /\ result = NewResult
    /\ trace = <<>>
    /\ prev = NoPrev
    /\ other = NoCall
    /\ sweep = NoSweep
    /\ session_state = NewSession
    /\ verification_results = NoResults
    /\ loop = Idle

CallVars == <<pc, audio_file, temp_file, written, result, trace>>

\* AudioFileValidator() and __enter__
Enter ==
    /\ scope \in {"none", "closed"}
    /\ pc \in {"idle", "done"}
    /\ other.pc \in {"idle", "done"}
    /\ calls < MaxCalls
    /\ scope' = "open"
    /\ temp_files' = <<>>
    /\ UNCHANGED <<disk, nextPath, calls, CallVars>>
    /\ UNCHANGED <<prev, RaceVars, MainVars>>

\* validate_audio_file(audio_file): the result dict is built
Begin ==
    /\ scope = "open"
    /\ pc \in {"idle", "done"}
    /\ calls < MaxCalls
    /\ \E ext \in Extensions, size \in Sizes :
          audio_file' = [ext |-> ext, size |-> size]
    /\ calls' = calls + 1
    /\ pc' = "seek"
    /\ temp_file' = NoPath
    /\ written' = 0
    /\ result' = NewResult
    /\ trace' = <<>>
    /\ UNCHANGED <<scope, temp_files, disk, nextPath>>
    /\ prev' = NoPrev
    /\ UNCHANGED <<RaceVars, MainVars>>

\* audio_file.seek(0)
Seek ==
    /\ pc = "seek"
    /\ \/ /\ pc' = "create"
          /\ trace' = Append(trace, Event("seek", "ok", ""))
          /\ UNCHANGED result
       \/ /\ pc' = Resume("seek")
          /\ result' = Caught("seek", "seek failed", result)
          /\ trace' = Append(trace, Event("seek", "raise", "seek failed"))
    /\ UNCHANGED <<scope, temp_files, disk, nextPath, calls, audio_file,
                   temp_file, written>>
    /\ UNCHANGED <<prev, RaceVars, MainVars>>

\* tempfile.NamedTemporaryFile(delete=False, ...)
Create ==
    /\ pc = "create"
    /\ \/ /\ pc' = "write"
          /\ temp_file' = nextPath
          /\ nextPath' = nextPath + 1
          /\ disk' = disk \cup {nextPath}
          /\ trace' = Append(trace, Event("create", "ok", ""))
          /\ UNCHANGED result
       \/ /\ pc' = Resume("create")
          /\ result' = Caught("create", "cannot create file", result)
          /\ trace' = Append(trace,
                             Event("create", "raise", "cannot create file"))
          /\ UNCHANGED <<temp_file, nextPath, disk>>
    /\ UNCHANGED <<scope, temp_files, calls, audio_file, written>>
    /\ UNCHANGED <<prev, RaceVars, MainVars>>

\* temp_file.write(audio_file.read()); temp_file.close()
Write ==
    /\ pc = "write"
    /\ \/ /\ pc' = "append"
          /\ written' = audio_file.size
          /\ trace' = Append(trace, Event("write", "ok", ""))
          /\ UNCHANGED result
       \/ \E e \in {"read failed", "write failed", "close failed"} :
          /\ pc' = Resume("write")
          /\ result' = Caught("write", e, result)
          /\ trace' = Append(trace, Event("write", "raise", e))
          /\ UNCHANGED written
    /\ UNCHANGED <<scope, temp_files, disk, nextPath, calls, audio_file,
                   temp_file>>
    /\ UNCHANGED <<prev, RaceVars, MainVars>>

\* AppendTemp as an unsynchronized read-modify-write that lost the
\* appends made since it read the list
AppendTemp_Overwrites ==
    /\ pc = "append"
    /\ temp_files' = <<temp_file>>
    /\ pc' = "check"
    /\ trace' = Append(trace, Event("append", "ok", ""))
    /\ UNCHANGED <<scope, disk, nextPath, calls, audio_file, temp_file,
                   written, result>>
    /\ UNCHANGED <<prev, RaceVars, MainVars>>

\* self.temp_files.append(temp_file.name)
AppendTemp ==
    /\ pc = "append"
    /\ temp_files' = Append(temp_files, temp_file)
    /\ pc' = "check"
    /\ trace' = Append(trace, Event("append", "ok", ""))
    /\ UNCHANGED <<scope, disk, nextPath, calls, audio_file, temp_file,
                   written, result>>
    /\ UNCHANGED <<prev, RaceVars, MainVars>>

\* IsEmpty without the size test
IsEmpty_ExistsOnly(path, size) == path \notin disk

\* not os.path.exists(path) or os.path.getsize(path) == 0
IsEmpty(path, size) == path \notin disk \/ size = 0

\* lines 364-366: the staged file is missing or empty
Check ==
    /\ pc = "check"
    /\ IF IsEmpty(temp_file, written)
       THEN /\ result' = AddError(result, EmptyError)
            /\ pc' = "return"
            /\ trace' = Append(trace, Event("check", "empty", ""))
       ELSE /\ pc' = "primary"
            /\ trace' = Append(trace, Event("check", "ok", ""))
            /\ UNCHANGED result
    /\ UNCHANGED <<scope, temp_files, disk, nextPath, calls, audio_file,
                   temp_file, written>>
    /\ UNCHANGED <<prev, RaceVars, MainVars>>

\* AfterLoad without the zero-sample test of lines 376-378
AfterLoad_NoZeroCheck(r, ext, n, rate) ==
    LET d == Duration(n, rate)
        r1 == [r EXCEPT !.duration = d, !.sample_rate = rate,
                        !.format = Lower(ext)]
    IN  IF DurLess(d, HardFloor) THEN AddError(r1, ShortError)
        ELSE IF DurLess(d, MIN_AUDIO_DURATION)
             THEN AddWarning(r1, ShortWarning(d))
        ELSE r1

\* AfterLoad taking the audio for mono until the probe says otherwise
AfterLoad_AssumesMono(r, ext, n, rate) ==
    LET d == Duration(n, rate)
        r1 == [r EXCEPT !.duration = d, !.sample_rate = rate,
                        !.channels = 1, !.format = Lower(ext)]
    IN  IF n = 0 THEN AddError(r1, NoDataError)
        ELSE IF DurLess(d, HardFloor) THEN AddError(r1, ShortError)
        ELSE IF DurLess(d, MIN_AUDIO_DURATION)
             THEN AddWarning(r1, ShortWarning(d))
        ELSE r1

\* AfterLoad with the advisory test written duration <= MIN_AUDIO_DURATION
AfterLoad_WarnAtMinimum(r, ext, n, rate) ==
    LET d == Duration(n, rate)
        r1 == [r EXCEPT !.duration = d, !.sample_rate = rate,
                        !.format = Lower(ext)]
    IN  IF n = 0 THEN AddError(r1, NoDataError)
        ELSE IF DurLess(d, HardFloor) THEN AddError(r1, ShortError)
        ELSE IF d.n <= MIN_AUDIO_DURATION * d.r
             THEN AddWarning(r1, ShortWarning(d))
        ELSE r1

\* AfterLoad with the advisory of lines 384-385 appended to errors
AfterLoad_AdvisoryAsError(r, ext, n, rate) ==
    LET d == Duration(n, rate)
        r1 == [r EXCEPT !.duration = d, !.sample_rate = rate,
                        !.format = Lower(ext)]
    IN  IF n = 0 THEN AddError(r1, NoDataError)
        ELSE IF DurLess(d, HardFloor) THEN AddError(r1, ShortError)
        ELSE IF DurLess(d, MIN_AUDIO_DURATION)
             THEN AddError(r1, ShortWarning(d))
        ELSE r1

\* lines 370-385: the fields and the duration policy after librosa.load
\* returned n samples at the given rate
AfterLoad(r, ext, n, rate) ==
    LET d == Duration(n, rate)
        r1 == [r EXCEPT !.duration = d, !.sample_rate = rate,
                        !.format = Lower(ext)]
    IN  IF n = 0 THEN AddError(r1, NoDataError)
        ELSE IF DurLess(d, HardFloor) THEN AddError(r1, ShortError)
        ELSE IF DurLess(d, MIN_AUDIO_DURATION)
             THEN AddWarning(r1, ShortWarning(d))
        ELSE r1

\* the values a decoder can read from the staged file of the call: none
\* once the file is gone from storage
Readable(values) == IF temp_file \in disk THEN values ELSE {}

\* the early returns of lines 376-382
LoadReturns(n, rate) == n = 0 \/ DurLess(Duration(n, rate), HardFloor)

\* librosa.load(temp_file.name, sr=None) and the duration policy
Primary ==
    /\ pc = "primary"
    /\ \/ \E rate \in Readable(Rates) : \E n \in SampleCounts(rate) :
          /\ result' = AfterLoad(result, audio_file.ext, n, rate)
          /\ pc' = IF LoadReturns(n, rate) THEN "return" ELSE "probe"
          /\ trace' = Append(trace,
                Decoded("primary", IF n = 0 THEN "nodata" ELSE "ok", "",
                        n, rate, 0))
       \/ /\ pc' = Resume("load")
          /\ result' = Caught("load", "codec error", result)
          /\ trace' = Append(trace, Event("primary", "raise", "codec error"))
    /\ UNCHANGED <<scope, temp_files, disk, nextPath, calls, audio_file,
                   temp_file, written>>
    /\ UNCHANGED <<prev, RaceVars, MainVars>>

\* Probe with the zero-frame test read recorded as a warning, the call
\* going on to line 397
Probe_ZeroAsWarning ==
    /\ pc = "probe"
    /\ \/ \E e \in {"unsupported format", "no channel count"} :
          /\ pc' = Resume("probe")
          /\ result' = Caught("probe", e, result)
          /\ trace' = Append(trace, Event("probe", "raise", e))
       \/ \E ch \in Readable(Channels) :
          LET r1 == [result EXCEPT !.channels = ch]
          IN  \/ /\ pc' = Resume("probe")
                 /\ result' = Caught("probe", "read failed", r1)
                 /\ trace' = Append(trace,
                       Decoded("probe", "raise", "read failed", 0, 0, ch))
              \/ /\ pc' = "mark_valid"
                 /\ result' = AddWarning(r1, NoFramesError)
                 /\ trace' = Append(trace,
                       Decoded("probe", "zero", "", 0, 0, ch))
              \/ /\ pc' = "mark_valid"
                 /\ result' = r1
                 /\ trace' = Append(trace,
                       Decoded("probe", "ok", "", 0, 0, ch))
    /\ UNCHANGED <<scope, temp_files, disk, nextPath, calls, audio_file,
                   temp_file, written>>
    /\ UNCHANGED <<prev, RaceVars, MainVars>>

\* with sf.SoundFile(temp_file.name) as f: channels and the test read
Probe ==
    /\ pc = "probe"
    /\ \/ \E e \in {"unsupported format", "no channel count"} :
          /\ pc' = Resume("probe")
          /\ result' = Caught("probe", e, result)
          /\ trace' = Append(trace, Event("probe", "raise", e))
       \/ \E ch \in Readable(Channels) :
          LET r1 == [result EXCEPT !.channels = ch]
          IN  \/ /\ pc' = Resume("probe")
                 /\ result' = Caught("probe", "read failed", r1)
                 /\ trace' = Append(trace,
                       Decoded("probe", "raise", "read failed", 0, 0, ch))
              \/ /\ pc' = "return"
                 /\ result' = AddError(r1, NoFramesError)
                 /\ trace' = Append(trace,
                       Decoded("probe", "zero", "", 0, 0, ch))
              \/ /\ pc' = "mark_valid"
                 /\ result' = r1
                 /\ trace' = Append(trace,
                       Decoded("probe", "ok", "", 0, 0, ch))
    /\ UNCHANGED <<scope, temp_files, disk, nextPath, calls, audio_file,
                   temp_file, written>>
    /\ UNCHANGED <<prev, RaceVars, MainVars>>

\* line 397: result['is_valid'] = True
MarkValid ==
    /\ pc = "mark_valid"
    /\ result' = [result EXCEPT !.is_valid = TRUE]
    /\ pc' = "return"
    /\ UNCHANGED <<scope, temp_files, disk, nextPath, calls, audio_file,
                   temp_file, written, trace>>
    /\ UNCHANGED <<prev, RaceVars, MainVars>>

\* AfterWave without the duration >= 1.0 test of line 415
AfterWave_NoFloor(r, frames, rate, ch) ==
    AddWarning([r EXCEPT !.duration = Duration(frames, rate),
                         !.sample_rate = rate, !.channels = ch,
                         !.format = ".wav", !.is_valid = TRUE],
               FallbackWarning)

\* AfterWave without the assignment of channels of line 412
AfterWave_NoChannels(r, frames, rate, ch) ==
    LET d == Duration(frames, rate)
        r1 == [r EXCEPT !.duration = d, !.sample_rate = rate,
                        !.format = ".wav"]
    IN  IF ~DurLess(d, HardFloor)
        THEN AddWarning([r1 EXCEPT !.is_valid = TRUE], FallbackWarning)
        ELSE r1

\* lines 404-417: the fields read from the WAV header; frames / 0 raises
\* ZeroDivisionError before any field is assigned
AfterWave(r, frames, rate, ch) ==
    LET d == Duration(frames, rate)
        r1 == [r EXCEPT !.duration = d, !.sample_rate = rate,
                        !.channels = ch, !.format = ".wav"]
    IN  IF ~DurLess(d, HardFloor)
        THEN AddWarning([r1 EXCEPT !.is_valid = TRUE], FallbackWarning)
        ELSE r1

\* with wave.open(temp_file.name, 'rb') as wav_file
Fallback ==
    /\ pc = "fallback"
    /\ \/ \E rate \in Readable(HeaderRates), ch \in Channels :
          \E frames \in SampleCounts(rate) :
             IF rate = 0
             THEN /\ pc' = Resume("wave")
                  /\ result' = Caught("wave", "division by zero", result)
                  /\ trace' = Append(trace,
                        Decoded("fallback", "raise", "division by zero",
                                frames, rate, ch))
             ELSE /\ result' = AfterWave(result, frames, rate, ch)
                  /\ pc' = "return"
                  /\ trace' = Append(trace,
                        Decoded("fallback", "ok", "", frames, rate, ch))
       \/ /\ pc' = Resume("wave")
          /\ result' = Caught("wave", "not a WAVE file", result)
          /\ trace' = Append(trace,
                             Event("fallback", "raise", "not a WAVE file"))
    /\ UNCHANGED <<scope, temp_files, disk, nextPath, calls, audio_file,
                   temp_file, written>>
    /\ UNCHANGED <<prev, RaceVars, MainVars>>

\* Return with the staged file unlinked before the result is handed back
Return_Unlinks ==
    /\ pc = "return"
    /\ pc' = "done"
    /\ disk' = disk \ {temp_file}
    /\ UNCHANGED <<scope, temp_files, nextPath, calls, audio_file,
                   temp_file, written, result, trace>>
    /\ UNCHANGED <<prev, RaceVars, MainVars>>

\* line 425: return result
Return ==
    /\ pc = "return"
    /\ pc' = "done"
    /\ UNCHANGED <<scope, temp_files, disk, nextPath, calls, audio_file,
                   temp_file, written, result, trace>>
    /\ UNCHANGED <<prev, RaceVars, MainVars>>

Range(s) == {s[i] : i \in DOMAIN s}

\* the storage after cleanup() when os.unlink raises for the paths in failing
Unlinked(files, failing) == disk \ (Range(files) \ failing)

\* cleanup(): every tracked file that exists is unlinked, the list is reset
cleanup ==
    /\ \E failing \in SUBSET (Range(temp_files) \cap disk) :
          disk' = Unlinked(temp_files, failing)
    /\ temp_files' = <<>>

Cleanup ==
    /\ scope = "open"
    /\ pc \in {"idle", "done"}
    /\ other.pc \in {"idle", "done"}
    /\ cleanup
    /\ UNCHANGED <<scope, nextPath, calls, CallVars>>
    /\ UNCHANGED <<prev, RaceVars, MainVars>>

\* __exit__: the with-block of the instance ends
Exit ==
    /\ scope = "open"
    /\ pc \in {"idle", "done"}
    /\ other.pc \in {"idle", "done"}
    /\ cleanup
    /\ scope' = "closed"
    /\ UNCHANGED <<nextPath, calls, CallVars>>
    /\ UNCHANGED <<prev, RaceVars, MainVars>>

\* the steps of a validate_audio_file call in flight
CallNext ==
    \/ Seek \/ Create \/ Write \/ AppendTemp \/ Check
    \/ Primary \/ Probe \/ MarkValid \/ Fallback \/ Return

Next ==
    \/ Enter
    \/ Begin
    \/ Seek
    \/ Create
    \/ Write
    \/ AppendTemp
    \/ Check
    \/ Primary
    \/ Probe
    \/ MarkValid
    \/ Fallback
    \/ Return
    \/ Cleanup
    \/ Exit

Spec == Init /\ [][Next]_vars

\* ------------------------------------------------- the same upload twice
\* Repeat with the result dict of lines 346-354 built around the two
\* lists of the last result instead of two new ones
Repeat_SharedLists ==
    /\ scope = "open"
    /\ pc = "done"
    /\ calls < MaxCalls
    /\ prev' = [set |-> TRUE, audio_file |-> audio_file, trace |-> trace,
                result |-> result, shared |-> {"errors", "warnings"}]
    /\ calls' = calls + 1
    /\ pc' = "seek"
    /\ temp_file' = NoPath
    /\ written' = 0
    /\ result' = [NewResult EXCEPT !.errors = result.errors,
                                   !.warnings = result.warnings]
    /\ trace' = <<>>
    /\ UNCHANGED <<scope, temp_files, disk, nextPath, audio_file, RaceVars,
                   MainVars>>

\* Repeat with the errors list of the new result shared with the last one
Repeat_SharedErrors ==
    /\ scope = "open"
    /\ pc = "done"
    /\ calls < MaxCalls
    /\ prev' = [set |-> TRUE, audio_file |-> audio_file, trace |-> trace,
                result |-> result, shared |-> {"errors"}]
    /\ calls' = calls + 1
    /\ pc' = "seek"
    /\ temp_file' = NoPath
    /\ written' = 0
    /\ result' = [NewResult EXCEPT !.errors = result.errors]
    /\ trace' = <<>>
    /\ UNCHANGED <<scope, temp_files, disk, nextPath, audio_file, RaceVars,
                   MainVars>>

\* validate_audio_file called again on the upload of the call that has
\* just returned; that call is kept for comparison
Repeat ==
    /\ scope = "open"
    /\ pc = "done"
    /\ calls < MaxCalls
    /\ prev' = [set |-> TRUE, audio_file |-> audio_file, trace |-> trace,
                result |-> result, shared |-> {}]
    /\ calls' = calls + 1
    /\ pc' = "seek"
    /\ temp_file' = NoPath
    /\ written' = 0
    /\ result' = NewResult
    /\ trace' = <<>>
    /\ UNCHANGED <<scope, temp_files, disk, nextPath, audio_file, RaceVars,
                   MainVars>>

\* the operations whose outcome the environment decides: the upload's
\* stream, the storage and the three decoders
EnvOps == {"seek", "create", "write", "primary", "probe", "fallback"}
IsEnv(e) == e.op \in EnvOps
Env(t) == SelectSeq(t, IsEnv)

\* in a repeated call the environment answers as it did in the call
\* repeated, as far as that call went
Replays ==
    (prev.set /\ Env(trace') # Env(trace)) =>
        LET k == Len(Env(trace'))
        IN  k <= Len(Env(prev.trace)) => Env(trace')[k] = Env(prev.trace)[k]

NextPair ==
    \/ Enter
    \/ Begin
    \/ Repeat
    \/ CallNext /\ Replays
    \/ Cleanup
    \/ Exit

SpecPair == Init /\ [][NextPair]_vars

\* ------------------------------------------- main(): Audio Verification
\* placeholder_transcription_validation with the hint echoed as it is
placeholder_transcription_validation_EchoesHint(expected_language) ==
    [transcription_available |-> FALSE,
     transcription_text |-> "",
     language_detected |-> expected_language,
     confidence_score |-> 0,
     quality_metrics |->
        [clarity_score |-> 0, noise_level |-> 0, speech_to_noise_ratio |-> 0],
     validation_status |-> "PLACEHOLDER_NOT_IMPLEMENTED",
     expected_language |-> expected_language]

\* placeholder_transcription_validation(audio_file, expected_language);
\* None is the empty string
placeholder_transcription_validation(expected_language) ==
    [transcription_available |-> FALSE,
     transcription_text |-> "",
     language_detected |->
        IF expected_language = "" THEN "unknown" ELSE expected_language,
     confidence_score |-> 0,
     quality_metrics |->
        [clarity_score |-> 0, noise_level |-> 0, speech_to_noise_ratio |-> 0],
     validation_status |-> "PLACEHOLDER_NOT_IMPLEMENTED",
     expected_language |-> expected_language]

\* result['transcription'] = transcription_result
WithTranscription(r, t) ==
    [is_valid |-> r.is_valid, duration |-> r.duration,
     sample_rate |-> r.sample_rate, channels |-> r.channels,
     format |-> r.format, errors |-> r.errors, warnings |-> r.warnings,
     transcription |-> t]

\* d[key] = value
Put(d, key, value) ==
    [k \in DOMAIN d \cup {key} |-> IF k = key THEN value ELSE d[k]]

\* the list a for loop of the Verify handler iterates
FilesOf(model) ==
    IF model = "model1" THEN session_state.model1_audio_files
    ELSE session_state.model2_audio_files

\* the file the Verify handler is at
Current == FilesOf(loop.model)[loop.i]

\* the position after the file at loop: the next file of the list, the
\* first file of model2, or the end of both loops
Advance ==
    IF loop.i < Len(FilesOf(loop.model))
    THEN [loop EXCEPT !.i = loop.i + 1, !.at = "call"]
    ELSE IF loop.model = "model1" /\ session_state.model2_audio_files # <<>>
    THEN [model |-> "model2", i |-> 1, at |-> "call"]
    ELSE [loop EXCEPT !.at = "finish"]

\* ------------------------------------------------ main(): the wizard
\* is_step_completed(step_name) on the session s
is_step_completed(s, step_name) ==
    CASE step_name = MetadataAudio ->
            /\ \A key \in {"question_id", "initial_goal", "prompt_text",
                            "model1", "model2"} :
                  key \in DOMAIN s /\ s[key] # ""
            /\ "metadata_saved" \in DOMAIN s /\ s.metadata_saved
            /\ \A key \in {"model1_audio_files", "model2_audio_files"} :
                  key \in DOMAIN s /\ s[key] # <<>>
            /\ "audio_saved" \in DOMAIN s /\ s.audio_saved
      [] step_name = AudioVerification ->
            /\ "audio_verification_complete" \in DOMAIN s
            /\ s.audio_verification_complete
            /\ "verification_results" \in DOMAIN s
      [] step_name = SummarySubmission ->
            Get(s, "submission_complete", FALSE)
      [] OTHER -> FALSE

\* get_next_step(current_page); None is the empty string
get_next_step(current_page) ==
    CASE current_page = MetadataAudio -> AudioVerification
      [] current_page = AudioVerification -> SummarySubmission
      [] OTHER -> ""

\* lines 649-661: the page main() shows for the sidebar selection
requested_page(s, selected_nav) ==
    IF selected_nav = AudioVerification
          /\ ~is_step_completed(s, MetadataAudio)
    THEN MetadataAudio
    ELSE IF selected_nav = SummarySubmission
               /\ ~is_step_completed(s, AudioVerification)
    THEN AudioVerification
    ELSE selected_nav

ALLOWED_LANGUAGES ==
    {"id-ID", "ar-EG", "ko-KR", "es-419", "pt-BR", "hi-IN", "en-IN", "ja-JP",
     "hi-EN", "ko-EN", "id-EN", "vi-VN", "pt-EN", "de-DE", "fr-FR", "zh-CN",
     "nl-NL", "ru-EN", "ja-KR", "es-EN", "zh-TW", "ar-EN", "zh-EN", "fr-EN",
     "ja-EN", "de-EN", "ko-JA", "ko-ZH", "es-en"}

MODEL_COMBINATIONS == {<<"Gemini", "ChatGPT">>, <<"ChatGPT", "Gemini">>}

\* the Question IDs entered in the metadata form
KoreanId == "x+experience_monolingual_human_eval_ko-KR+INTERNAL"
EnglishId == "x+experience_audio_out_human_eval_en-US+INTERNAL"
QuestionIds == {KoreanId, EnglishId}

\* group(1) of the language pattern of line 450, "" when it does not match
LanguageMatch(question_id) ==
    CASE question_id = KoreanId -> "ko-KR"
      [] question_id = EnglishId -> "en-US"
      [] OTHER -> ""

\* the project type lines 459-475 find in the id, "" for None
ProjectMatch(question_id) ==
    CASE question_id = KoreanId -> "Monolingual"
      [] question_id = EnglishId -> "Audio Out"
      [] OTHER -> ""

\* parse_question_id(question_id): language and project type, "" for None
parse_question_id(question_id) ==
    <<IF LanguageMatch(question_id) \in ALLOWED_LANGUAGES
      THEN LanguageMatch(question_id) ELSE "",
      ProjectMatch(question_id)>>

\* the text of the email input: the part before the last '@' if there is
\* one, the host, and the letters after the last dot
Email(local, at, host, tld) ==
    [local |-> local, at |-> at, host |-> host, tld |-> tld]
NoEmail == Email("", FALSE, "", "")
Emails ==
    {NoEmail, Email("a", TRUE, "b", "com"), Email("a", TRUE, "b", "io"),
     Email("a", FALSE, "b", "com"), Email("a", TRUE, "b", "c")}

\* len() of the top-level domains of the model
TldLen(tld) ==
    CASE tld = "com" -> 3
      [] tld = "io" -> 2
      [] tld = "c" -> 1
      [] OTHER -> 0

\* validate_email_format(email): the pattern of line 484
validate_email_format(email) ==
    /\ email.local # ""
    /\ email.at
    /\ email.host # ""
    /\ TldLen(email.tld) >= 2

\* validate_email_against_spreadsheet(email), line 573
validate_email_against_spreadsheet(email) ==
    email.at /\ email.tld \in {"com", "org", "net", "edu"}

\* lines 1079-1094: the value email_validated gets when the Summary page
\* is shown with user_email in the email input
EmailChecked(user_email) ==
    IF user_email # NoEmail
    THEN IF validate_email_format(user_email)
         THEN validate_email_against_spreadsheet(user_email)
         ELSE FALSE
    ELSE FALSE

\* generate_drive_url_placeholder(audio_package, filename, metadata)
generate_drive_url_placeholder ==
    "https://drive.google.com/file/d/PLACEHOLDER_AUDIO_VALIDATION_ID/view?usp=sharing"

\* submit_to_spreadsheet_placeholder(form_data)
submit_to_spreadsheet_placeholder == TRUE

\* the variables a run of main() outside the Verify handler leaves alone
OutsideSession ==
    <<scope, temp_files, disk, nextPath, calls, CallVars, prev, RaceVars,
      verification_results, loop>>

\* a run of main() can start: no Verify handler is running
BetweenRuns == loop.at = "idle" /\ pc \in {"idle", "done"}

\* a run of main() for a selection of the sidebar radio, no button
\* pressed: the step access check, and on the Summary page the email check
Navigate ==
    /\ BetweenRuns
    /\ \E selected_nav \in nav_options :
          LET page == requested_page(session_state, selected_nav)
              s1 == Merge(session_state, [current_page |-> page])
          IN  IF page = SummarySubmission
                    /\ Get(s1, "audio_verification_complete", FALSE)
              THEN \E user_email \in Emails :
                      session_state' =
                         Merge(s1, [email_validated |->
                                       EmailChecked(user_email)])
              ELSE session_state' = s1
    /\ UNCHANGED OutsideSession

\* lines 747-758: Save Metadata with every required field filled in
SaveMetadata ==
    /\ BetweenRuns
    /\ session_state.current_page = MetadataAudio
    /\ \E question_id \in QuestionIds, model_combo \in MODEL_COMBINATIONS :
          session_state' =
             Merge(session_state,
                   [question_id |-> question_id,
                    initial_goal |-> "goal",
                    prompt_text |-> "prompt",
                    model1 |-> model_combo[1],
                    model2 |-> model_combo[2],
                    detected_language |-> parse_question_id(question_id)[1],
                    detected_project_type |->
                        parse_question_id(question_id)[2],
                    metadata_saved |-> TRUE])
    /\ UNCHANGED OutsideSession

\* lines 844-849: Save Audio Recordings with files in both uploaders; the
\* uploaders are shown once the metadata is saved
SaveAudio ==
    /\ BetweenRuns
    /\ session_state.current_page = MetadataAudio
    /\ Get(session_state, "metadata_saved", FALSE)
    /\ \E m1, m2 \in UploadLists \ {<<>>} :
          /\ Len(m1) + Len(m2) <= MaxCalls
          /\ session_state' =
                Merge(session_state,
                      [model1_audio_files |-> m1, model2_audio_files |-> m2,
                       audio_saved |-> TRUE])
    /\ UNCHANGED OutsideSession

\* show_next_step_button: Continue pressed on a completed step
Continue ==
    /\ BetweenRuns
    /\ is_step_completed(session_state, session_state.current_page)
    /\ get_next_step(session_state.current_page) # ""
    /\ session_state' =
          Merge(session_state,
                [current_page |-> get_next_step(session_state.current_page)])
    /\ UNCHANGED OutsideSession

\* lines 903-910: Verify Audio Recordings pressed, a validator is entered
VerifyClick ==
    /\ loop.at = "idle"
    /\ pc \in {"idle", "done"}
    /\ scope \in {"none", "closed"}
    /\ session_state.current_page = AudioVerification
    /\ is_step_completed(session_state, MetadataAudio)
    /\ calls + Len(session_state.model1_audio_files)
             + Len(session_state.model2_audio_files) <= MaxCalls
    /\ scope' = "open"
    /\ temp_files' = <<>>
    /\ verification_results' = NoResults
    /\ loop' = [model |-> "model1", i |-> 1, at |-> "call"]
    /\ UNCHANGED <<disk, nextPath, calls, CallVars, prev, RaceVars,
                   session_state>>

\* lines 914 and 923: validate_audio_file(audio_file) on the file at loop
BatchBegin ==
    /\ loop.at = "call"
    /\ audio_file' = [ext |-> Ext(Current.name), size |-> Current.size]
    /\ calls' = calls + 1
    /\ pc' = "seek"
    /\ temp_file' = NoPath
    /\ written' = 0
    /\ result' = NewResult
    /\ trace' = <<>>
    /\ loop' = [loop EXCEPT !.at = "running"]
    /\ UNCHANGED <<scope, temp_files, disk, nextPath, prev, RaceVars,
                   session_state, verification_results>>

\* lines 915-919 and 924-928: the result, with the placeholder
\* transcription, is stored under the file's name
Store ==
    /\ loop.at = "running"
    /\ pc = "done"
    /\ verification_results' =
          [verification_results EXCEPT ![loop.model] =
              Put(@, Current.name,
                  WithTranscription(result,
                      placeholder_transcription_validation(
                          Get(session_state, "detected_language", ""))))]
    /\ loop' = Advance
    /\ UNCHANGED <<scope, temp_files, disk, nextPath, calls, CallVars, prev,
                   RaceVars, session_state>>

\* lines 930-931 and __exit__: the results go to the session, the
\* validator's with-block ends and the handler's locals with it
VerifyDone ==
    /\ loop.at = "finish"
    /\ session_state' =
          Merge(session_state,
                [verification_results |-> verification_results,
                 audio_verification_complete |-> TRUE])
    /\ cleanup
    /\ scope' = "closed"
    /\ loop' = Idle
    /\ pc' = "idle"
    /\ audio_file' = [ext |-> ".wav", size |-> 0]
    /\ temp_file' = NoPath
    /\ written' = 0
    /\ result' = NewResult
    /\ trace' = <<>>
    /\ verification_results' = NoResults
    /\ UNCHANGED <<nextPath, calls, prev, RaceVars>>

\* the environment of a batch: one sample rate, two sample counts, mono,
\* and one kind of failure for the storage and for each decoder
BatchInputs ==
    \A i \in DOMAIN trace :
        /\ trace[i].rate <= 1
        /\ trace[i].n \in {0, MIN_AUDIO_DURATION}
        /\ trace[i].ch <= 1
        /\ trace[i].why \in {"", "write failed", "codec error",
                              "unsupported format", "not a WAVE file"}

\* the session of a batch: one Question ID, one model order, the first
\* two pages
BatchSession ==
    /\ session_state.current_page \in {MetadataAudio, AudioVerification}
    /\ Get(session_state, "question_id", KoreanId) = KoreanId
    /\ Get(session_state, "model1", "Gemini") = "Gemini"

NextBatch ==
    \/ Navigate /\ BatchSession'
    \/ SaveMetadata /\ BatchSession'
    \/ SaveAudio /\ calls < MaxCalls
    \/ VerifyClick
    \/ BatchBegin
    \/ CallNext /\ BatchInputs'
    \/ Store
    \/ VerifyDone

SpecBatch == Init /\ [][NextBatch]_vars

\* ------------------------------------------- main(): Summary & Submission
\* the Summary page is shown with user_email in the email input: line 1037
\* lets the run pass, lines 1079-1094 set email_validated
SummaryShown(user_email) ==
    Merge(session_state, [email_validated |-> EmailChecked(user_email)])

\* line 1196: load_button_disabled
load_button_disabled(s) == ~s.email_validated

\* submit_disabled with the Drive URL left out
submit_disabled_EmailOnly(s) == ~s.email_validated

\* line 1238: submit_disabled
submit_disabled(s) == ~(s.email_validated /\ s.drive_url_generated)

\* a button of the Summary page can be pressed: the page is the one shown
\* and its prerequisite of line 1037 holds
OnSummary ==
    /\ BetweenRuns
    /\ session_state.current_page = SummarySubmission
    /\ Get(session_state, "audio_verification_complete", FALSE)

\* lines 1197-1221: Load pressed while the button is enabled
LoadDriveUrl ==
    /\ OnSummary
    /\ \E user_email \in Emails :
          LET s1 == SummaryShown(user_email)
          IN  /\ ~load_button_disabled(s1)
              /\ session_state' =
                    Merge(s1, [drive_url |-> generate_drive_url_placeholder,
                               drive_url_generated |-> TRUE])
    /\ UNCHANGED OutsideSession

\* lines 1240-1270: Submit Evaluation pressed while the button is enabled
Submit ==
    /\ OnSummary
    /\ \E user_email \in Emails :
          LET s1 == SummaryShown(user_email)
          IN  /\ ~submit_disabled(s1)
              /\ submit_to_spreadsheet_placeholder
              /\ session_state' = Merge(s1, [submission_complete |-> TRUE])
    /\ UNCHANGED OutsideSession

\* keys_to_clear kept in the session
Cleared_KeepsAll(s) == s

\* lines 1319-1321: every key but current_page is deleted
Cleared(s) == [key \in DOMAIN s \cap {"current_page"} |-> s[key]]

\* lines 1304-1337: Start New Evaluation pressed after a submission
StartNew ==
    /\ OnSummary
    /\ \E user_email \in Emails :
          LET s1 == SummaryShown(user_email)
          IN  /\ Get(s1, "submission_complete", FALSE)
              /\ session_state' = Merge(Cleared(s1), InitialKeys)
    /\ UNCHANGED OutsideSession

\* the decoders of the wizard: one sample rate, one minute of samples,
\* mono, and one kind of failure for each decoder
WizardInputs ==
    \A i \in DOMAIN trace :
        /\ trace[i].op \in {"primary", "fallback"} =>
              trace[i].res = "raise" \/ trace[i].rate = 1
        /\ trace[i].n \in {0, MIN_AUDIO_DURATION}
        /\ trace[i].op \in {"primary", "fallback"} =>
              trace[i].res = "raise" \/ trace[i].n = MIN_AUDIO_DURATION
        /\ trace[i].ch <= 1
        /\ trace[i].why \in {"", "codec error", "not a WAVE file"}

\* the uploads of the wizard: one file with content for each model
WizardFiles ==
    \A key \in {"model1_audio_files", "model2_audio_files"} :
        /\ Len(session_state[key]) = 1
        /\ session_state[key][1].size > 0

NextWizard ==
    \/ Navigate
    \/ SaveMetadata
    \/ SaveAudio /\ WizardFiles'
    \/ Continue
    \/ VerifyClick
    \/ BatchBegin
    \/ CallNext /\ WizardInputs'
    \/ Store
    \/ VerifyDone
    \/ LoadDriveUrl
    \/ Submit
    \/ StartNew

SpecWizard == Init /\ [][NextWizard]_vars

\* ------------------------------------- two calls on one instance at once
\* the call of the running thread, as a record
ThisCall ==
    [pc |-> pc, audio_file |-> audio_file, temp_file |-> temp_file,
     written |-> written, result |-> result, trace |-> trace]

\* the scheduler runs the other thread: the locals of a call (lines
\* 346-362: result, temp_file) belong to its thread, the instance and the
\* storage are shared
Switch ==
    /\ scope = "open"
    /\ sweep.at = "idle"
    /\ pc # other.pc \/ pc \notin {"idle", "done"}
    /\ other' = ThisCall
    /\ pc' = other.pc
    /\ audio_file' = other.audio_file
    /\ temp_file' = other.temp_file
    /\ written' = other.written
    /\ result' = other.result
    /\ trace' = other.trace
    /\ UNCHANGED <<scope, temp_files, disk, nextPath, calls, prev, sweep,
                   MainVars>>

\* the storage lets os.unlink remove every file cleanup() comes to
UnlinkSucceeds == disk' \cap Range(temp_files) = {}

NextWorkers ==
    \/ Enter
    \/ Begin
    \/ CallNext /\ BatchInputs'
    \/ Switch
    \/ Cleanup /\ UnlinkSucceeds
    \/ Exit /\ UnlinkSucceeds

SpecWorkers == Init /\ [][NextWorkers]_vars

\* -------------------------------------------- cleanup() beside a call
\* line 336: cleanup() is called while a call may be in flight; its for
\* loop starts at the head of self.temp_files
SweepStart ==
    /\ scope = "open"
    /\ sweep.at = "idle"
    /\ sweep' = [at |-> "loop", i |-> 1, tried |-> {}]
    /\ UNCHANGED <<scope, temp_files, disk, nextPath, calls, CallVars, prev,
                   other, MainVars>>

\* lines 336-341: the loop takes the next path of the list as it is now;
\* os.unlink removes the file or raises, and the exception is swallowed
SweepStep ==
    /\ sweep.at = "loop"
    /\ IF sweep.i <= Len(temp_files)
       THEN /\ sweep' = [sweep EXCEPT !.i = sweep.i + 1,
                                      !.tried = @ \cup {temp_files[sweep.i]}]
            /\ \/ disk' = disk \ {temp_files[sweep.i]}
               \/ /\ temp_files[sweep.i] \in disk
                  /\ UNCHANGED disk
       ELSE /\ sweep' = [sweep EXCEPT !.at = "reset"]
            /\ UNCHANGED disk
    /\ UNCHANGED <<scope, temp_files, nextPath, calls, CallVars, prev,
                   other, MainVars>>

\* line 342: self.temp_files = []
SweepReset ==
    /\ sweep.at = "reset"
    /\ temp_files' = <<>>
    /\ sweep' = [sweep EXCEPT !.at = "idle"]
    /\ UNCHANGED <<scope, disk, nextPath, calls, CallVars, prev, other,
                   MainVars>>

NextRace ==
    \/ Enter
    \/ Begin
    \/ CallNext /\ BatchInputs'
    \/ SweepStart
    \/ SweepStep
    \/ SweepReset

SpecRace == Init /\ [][NextRace]_vars

\* ---------------------------------------------------------------- claims
\* the call has returned its result to the caller
Returned == pc = "done"

Did(op) == \E i \in DOMAIN trace : trace[i].op = op
Outcome(op, res) ==
    \E i \in DOMAIN trace : trace[i].op = op /\ trace[i].res = res
Has(entries, e) == \E i \in DOMAIN entries : entries[i] = e
HasMsg(entries, msg) == \E i \in DOMAIN entries : entries[i].msg = msg
CountMsg(entries, msg) ==
    Cardinality({i \in DOMAIN entries : entries[i].msg = msg})

\* a decode path read the audio: librosa returned samples, or wave read
\* the header and the duration was computed
DecodeSucceeded == Outcome("primary", "ok") \/ Outcome("fallback", "ok")

FatalMsgs ==
    {EmptyError.msg, NoDataError.msg, ShortError.msg, NoFramesError.msg,
     WavError("").msg, UnexpectedError("").msg}
HasFatal(entries) ==
    \E i \in DOMAIN entries : entries[i].msg \in FatalMsgs

\* C1: when validate_audio_file has returned, the temporary file the call
\* staged is no longer on storage.
C1_TempFileDeletedOnReturn ==
    Returned => (temp_file # NoPath => temp_file \notin disk)

\* C2: validate_audio_file never raises: from every position of the call a
\* step is possible until the result is returned, the returned result has
\* the seven fields, and every failure of the call (an exception at any
\* stage, an empty staged file, a zero-frame test read) is an entry of
\* errors or warnings.
C2_NeverRaisesAndRecords ==
    /\ pc # "raised"
    /\ pc \notin {"idle", "done"} => ENABLED CallNext
    /\ Returned =>
        /\ DOMAIN result = {"is_valid", "duration", "sample_rate",
                            "channels", "format", "errors", "warnings"}
        /\ \A i \in DOMAIN trace :
            /\ trace[i].res = "raise" =>
                  \E j \in DOMAIN (result.errors \o result.warnings) :
                     (result.errors \o result.warnings)[j].detail
                        = trace[i].why
            /\ trace[i].res = "empty" => Has(result.errors, EmptyError)
            /\ trace[i].res = "nodata" => Has(result.errors, NoDataError)
            /\ trace[i].res = "zero" => Has(result.errors, NoFramesError)

\* a call has returned after both decoders raised
C2_Witness ==
    /\ Returned
    /\ Outcome("primary", "raise")
    /\ Outcome("fallback", "raise")

\* C3: a returned result with is_valid = true comes from a call whose
\* primary or fallback decode succeeded, and its duration is >= 1.0 s.
C3_ValidImpliesDecoded ==
    (Returned /\ result.is_valid) =>
        /\ DecodeSucceeded
        /\ ~DurLess(result.duration, HardFloor)

\* a valid result returned from the fallback path
C3_Witness ==
    /\ Returned
    /\ result.is_valid
    /\ Outcome("fallback", "ok")

\* C4: a returned result whose errors holds an entry of a fatal class has
\* is_valid = false, and a returned result is never invalid on the strength
\* of its warnings alone: an invalid result has an entry in errors.
C4_FatalForcesInvalid ==
    Returned =>
        /\ HasFatal(result.errors) => ~result.is_valid
        /\ ~result.is_valid => result.errors # <<>>

\* a valid result carrying two advisories, and no error
C4_Witness ==
    /\ Returned
    /\ result.is_valid
    /\ Len(result.warnings) = 2
    /\ result.errors = <<>>

\* C5: whenever the decode path that succeeded yields a duration < 1.0 s,
\* the returned result is invalid and errors holds the hard-floor entry.
C5_HardFloorOnBothPaths ==
    (Returned /\ DecodeSucceeded /\ DurLess(result.duration, HardFloor)) =>
        /\ ~result.is_valid
        /\ Has(result.errors, ShortError)

\* C6: whenever the decode path that succeeded yields 1.0 <= duration <
\* 60.0 s and no fatal error occurred, the returned result is valid and
\* warnings holds exactly one short-duration advisory, naming the duration
\* and the recommended minimum.
C6_AdvisoryOnBothPaths ==
    (/\ Returned
     /\ DecodeSucceeded
     /\ ~DurLess(result.duration, HardFloor)
     /\ DurLess(result.duration, MIN_AUDIO_DURATION)
     /\ ~HasFatal(result.errors)) =>
        /\ result.is_valid
        /\ CountMsg(result.warnings, ShortWarning(result.duration).msg) = 1
        /\ Has(result.warnings, ShortWarning(result.duration))

\* C7: a primary decode of >= 60.0 s whose secondary probe read a
\* non-empty block returns is_valid = true with no warnings and no errors;
\* and no result with duration >= 60.0 s carries the short-duration
\* advisory.
C7_LongDurationClean ==
    Returned =>
        /\ (/\ Outcome("primary", "ok")
            /\ ~DurLess(result.duration, MIN_AUDIO_DURATION)
            /\ Outcome("probe", "ok")) =>
              /\ result.is_valid
              /\ result.warnings = <<>>
              /\ result.errors = <<>>
        /\ ~DurLess(result.duration, MIN_AUDIO_DURATION) =>
              ~HasMsg(result.warnings, ShortWarning(result.duration).msg)

\* a primary decode of exactly 60.0 s with a successful probe has returned
C7_Witness ==
    /\ Returned
    /\ Outcome("primary", "ok")
    /\ Outcome("probe", "ok")
    /\ result.duration.n = MIN_AUDIO_DURATION * result.duration.r

\* C8: when the staged file is missing or has zero bytes at the check of
\* line 364, the returned result is invalid, errors holds the
\* empty-or-corrupted entry, and no decoder was attempted.
C8_EmptyShortCircuits ==
    (Returned /\ Did("check") /\ (written = 0 \/ Outcome("check", "empty")))
        =>
        /\ ~result.is_valid
        /\ Has(result.errors, EmptyError)
        /\ ~Did("primary")
        /\ ~Did("probe")
        /\ ~Did("fallback")

\* a zero-byte upload was staged, checked and its result returned
C8_Witness ==
    /\ Returned
    /\ Did("check")
    /\ audio_file.size = 0
    /\ temp_file # NoPath

\* C9: when the primary decode raised and the fallback decode raised too,
\* the returned result is invalid and errors is exactly the primary
\* failure followed by the fallback failure.
C9_BothDecodersFail ==
    \A i, j \in DOMAIN trace :
        (/\ Returned
         /\ trace[i].op = "primary" /\ trace[i].res = "raise"
         /\ trace[j].op = "fallback" /\ trace[j].res = "raise") =>
            /\ ~result.is_valid
            /\ result.errors = <<LoadError(trace[i].why),
                                 WavError(trace[j].why)>>

\* both decoders raised, the fallback on a zero sample rate in the header
C9_Witness ==
    /\ Returned
    /\ Outcome("primary", "raise")
    /\ \E j \in DOMAIN trace :
          /\ trace[j].op = "fallback"
          /\ trace[j].why = "division by zero"

\* C10: when the primary decode raised and the fallback decode read a
\* header of duration >= 1.0 s, the returned result is valid, warnings
\* holds the fallback-reader entry, format is '.wav', and duration,
\* sample_rate and channels are the header's values.
C10_FallbackSuccess ==
    \A j \in DOMAIN trace :
        (/\ Returned
         /\ Outcome("primary", "raise")
         /\ trace[j].op = "fallback" /\ trace[j].res = "ok"
         /\ trace[j].n >= HardFloor * trace[j].rate) =>
            /\ result.is_valid
            /\ Has(result.warnings, FallbackWarning)
            /\ result.format = ".wav"
            /\ result.duration = Duration(trace[j].n, trace[j].rate)
            /\ result.sample_rate = trace[j].rate
            /\ result.channels = trace[j].ch

\* an upload named .Mp3 validated by the fallback reader, two channels
C10_Witness ==
    /\ Returned
    /\ audio_file.ext = ".Mp3"
    /\ Outcome("fallback", "ok")
    /\ result.is_valid
    /\ result.channels = 2

\* C11: when the primary decode succeeded with duration >= 1.0 s and the
\* secondary probe raised (on open, on the channel count or on the test
\* read), the failure is an entry of warnings only, errors is left empty
\* and the returned result is valid.
C11_ProbeFailureIsWarning ==
    \A j \in DOMAIN trace :
        (/\ Returned
         /\ Outcome("primary", "ok")
         /\ ~DurLess(result.duration, HardFloor)
         /\ trace[j].op = "probe" /\ trace[j].res = "raise") =>
            /\ result.is_valid
            /\ result.errors = <<>>
            /\ Has(result.warnings, ProbeWarning(trace[j].why))

\* the probe raised on its test read, after the channel count was read
C11_Witness ==
    /\ Returned
    /\ Outcome("primary", "ok")
    /\ \E j \in DOMAIN trace :
          /\ trace[j].op = "probe"
          /\ trace[j].why = "read failed"

\* C12: when the probe opened the file and its test read gave zero frames,
\* the returned result is invalid and errors holds the cannot-read-frames
\* entry; warnings does not.
C12_ZeroFramesIsError ==
    (Returned /\ Outcome("primary", "ok") /\ Outcome("probe", "zero")) =>
        /\ ~result.is_valid
        /\ Has(result.errors, NoFramesError)
        /\ ~Has(result.warnings, NoFramesError)

\* a call whose probe read zero frames has returned
C12_Witness ==
    /\ Returned
    /\ Outcome("probe", "zero")
    /\ result.channels = 2

\* C13 as claimed: when librosa.load returned zero samples without raising,
\* the fallback WAV decode was attempted in the same call.
C13_ZeroSamplesTriggerFallback ==
    (Returned /\ Outcome("primary", "nodata")) => Did("fallback")

\* C13 as amended: when librosa.load returned zero samples without raising,
\* the call returns an invalid result whose only error is the
\* no-readable-audio-data entry, and neither the secondary probe nor the
\* fallback WAV decode is attempted.
C13_ZeroSamplesReturnInvalid ==
    (Returned /\ Outcome("primary", "nodata")) =>
        /\ ~result.is_valid
        /\ result.errors = <<NoDataError>>
        /\ ~Did("probe")
        /\ ~Did("fallback")

\* a call whose primary decode gave zero samples has returned
C13_Witness ==
    /\ Returned
    /\ Outcome("primary", "nodata")
    /\ result.sample_rate > 0

\* C14: in every returned result, format is the lower-cased extension of
\* the uploaded file's name.
C14_FormatIsDeclaredExtension ==
    Returned => result.format = Lower(audio_file.ext)

\* C17: within one call each operation of the pipeline (staging steps,
\* primary decode, probe, fallback decode) is attempted at most once.
C17_AtMostOnce ==
    \A i, j \in DOMAIN trace : trace[i].op = trace[j].op => i = j

\* a call has returned after staging, a failed primary decode and a failed
\* fallback decode
C17_Witness ==
    /\ Returned
    /\ Did("create")
    /\ Outcome("primary", "raise")
    /\ Outcome("fallback", "raise")

\* C18: the secondary probe runs only after the primary decode succeeded,
\* the fallback decode only after the primary decode raised, and never
\* both in one call.
C18_ProbeXorFallback ==
    /\ \A j \in DOMAIN trace :
        /\ trace[j].op = "probe" =>
              \E i \in 1..(j - 1) :
                 trace[i].op = "primary" /\ trace[i].res = "ok"
        /\ trace[j].op = "fallback" =>
              \E i \in 1..(j - 1) :
                 trace[i].op = "primary" /\ trace[i].res = "raise"
    /\ ~(Did("probe") /\ Did("fallback"))

\* a call whose probe raised has returned
C18_Witness ==
    /\ Returned
    /\ Outcome("probe", "raise")
    /\ ~Did("fallback")

\* C19: channels of a returned result is 0 unless the probe reported a
\* channel count or the fallback read the WAV header, and is then that
\* count; when the probe raised before reporting the count, channels is 0
\* and the result is valid.
C19_ChannelsDefault ==
    Returned =>
        /\ result.channels # 0 =>
              \E j \in DOMAIN trace :
                 /\ trace[j].ch = result.channels
                 /\ \/ trace[j].op = "probe"
                    \/ trace[j].op = "fallback" /\ trace[j].res = "ok"
        /\ \A j \in DOMAIN trace :
              (/\ trace[j].op = "probe" /\ trace[j].res = "raise"
               /\ trace[j].ch = 0) =>
                  /\ result.channels = 0
                  /\ result.is_valid

\* the probe raised before the channel count was read
C19_Witness ==
    /\ Returned
    /\ \E j \in DOMAIN trace :
          /\ trace[j].op = "probe"
          /\ trace[j].why = "no channel count"

\* C16: when the with-block of an instance exits, every temporary file
\* still on storage is one that cleanup tried to unlink: no file created
\* by a call of the instance is left behind untracked, whatever the exit
\* path of the call that created it.
C16_NoTempFileSurvivesExit ==
    [][(scope = "open" /\ scope' = "closed") =>
          disk' \subseteq Range(temp_files)]_vars

HeldResult ==
    [prev.result EXCEPT
        !.errors = IF "errors" \in prev.shared THEN result.errors ELSE @,
        !.warnings = IF "warnings" \in prev.shared THEN result.warnings
                     ELSE @]

\* a call starts from a new dict with two new lists; the caller of a call
\* holds what that call returned, and reads the same in it after every
\* later step of the instance
C22_Steps ==
    /\ (pc # "seek" /\ pc' = "seek") =>
          /\ result' = NewResult
          /\ prev'.shared = {}
    /\ (~prev.set /\ prev'.set) => HeldResult' = result
    /\ (prev.set /\ prev'.set) => HeldResult' = HeldResult

StagingFault ==
    \E i \in DOMAIN trace :
        trace[i].op \in {"seek", "create", "write"} /\ trace[i].res = "raise"

NamesOf(files) == {files[i].name : i \in DOMAIN files}

\* the seven fields of a stored result
Validation(r) ==
    [is_valid |-> r.is_valid, duration |-> r.duration,
     sample_rate |-> r.sample_rate, channels |-> r.channels,
     format |-> r.format, errors |-> r.errors, warnings |-> r.warnings]

\* in every state of a batch: the call in flight has not raised into the
\* loops, and at the end of the loops every file of both lists has a result
C20_BatchState ==
    /\ pc # "raised"
    /\ loop.at = "finish" =>
          /\ DOMAIN verification_results.model1
                = NamesOf(session_state.model1_audio_files)
          /\ DOMAIN verification_results.model2
                = NamesOf(session_state.model2_audio_files)

\* when the loop stores the result of a file: a storage fault while staging
\* gave that file a failed result, the result stored under the file's name
\* is the one its call returned, and the results of the other files are
\* left as they were
C20_BatchStore ==
    (loop.at = "running" /\ loop'.at # "running") =>
        /\ StagingFault =>
              /\ ~result.is_valid
              /\ HasMsg(result.errors, UnexpectedError("").msg)
        /\ Validation(verification_results'[loop.model][Current.name])
              = result
        /\ \A m \in {"model1", "model2"} :
              \A k \in DOMAIN verification_results[m] :
                 (m # loop.model \/ k # Current.name) =>
                    verification_results'[m][k] = verification_results[m][k]

\* C20: in a batch validated through one validator instance, a storage
\* fault while staging one file yields a failed result for that file, and
\* every other file of the batch is still validated and keeps its own
\* result.
C20_StagingFaultIsolated == []C20_BatchState /\ [][C20_BatchStore]_vars

\* the loops have ended: the file of model1 failed on a storage fault, a
\* file of model2 validated after it is valid
C20_Witness ==
    /\ loop.at = "finish"
    /\ \E k \in DOMAIN verification_results.model1 :
          HasMsg(verification_results.model1[k].errors,
                 UnexpectedError("").msg)
    /\ \E k \in DOMAIN verification_results.model2 :
          verification_results.model2[k].is_valid

\* a step of validate_audio_file: the position of the call moves
CallStep == pc' # pc

IsPrefix(s, t) == Len(s) <= Len(t) /\ SubSeq(t, 1, Len(s)) = s

CountOp(op) == Cardinality({i \in DOMAIN trace : trace[i].op = op})

\* a step of a call leaves every tracked path and every file on storage in
\* place and appends at most the call's own staged path, at line 362; any
\* other step that changes the list or the storage of an open instance is
\* cleanup, and it leaves the list empty
C24_Steps ==
    /\ CallStep =>
          /\ IsPrefix(temp_files, temp_files')
          /\ disk \subseteq disk'
          /\ temp_files' # temp_files =>
                /\ pc = "append"
                /\ temp_files' = Append(temp_files, temp_file)
                /\ temp_file \in disk
    /\ (~CallStep /\ scope = "open"
           /\ <<temp_files, disk, scope>>' # <<temp_files, disk, scope>>) =>
          temp_files' = <<>>

\* a call appends once if it staged its file and never otherwise, and
\* every tracked path is on storage while no cleanup has run
C24_State ==
    /\ CountOp("append") <= 1
    /\ Returned => (Outcome("write", "ok") <=> Outcome("append", "ok"))
    /\ \A i \in DOMAIN temp_files : temp_files[i] \in disk

\* C24: across the calls on one instance temp_files only grows, by the one
\* path of each call that staged a file, and no staged file is deleted
\* before cleanup() or __exit__ runs; after cleanup() temp_files is empty.
C24_TempFilesGrowUntilCleanup == []C24_State /\ [][C24_Steps]_vars

\* two calls have staged a file each and returned: both paths are tracked
\* and both files are on storage
C24_Witness ==
    /\ Returned
    /\ calls = 2
    /\ Len(temp_files) = 2
    /\ Range(temp_files) \subseteq disk
    /\ temp_files[2] = temp_file

\* C26: a returned result is valid with a non-empty errors list exactly
\* when the fallback WAV reader validated it, and errors then holds only
\* the failure of the primary decode; a valid result of the primary path
\* has no errors.
C26_ValidWithErrorsIsFallback ==
    Returned =>
        /\ (result.is_valid /\ result.errors # <<>>)
              <=> (result.is_valid /\ Outcome("fallback", "ok"))
        /\ (result.is_valid /\ Outcome("fallback", "ok")) =>
              /\ Len(result.errors) = 1
              /\ result.errors[1].msg = LoadError("").msg
              /\ Outcome("primary", "raise")
        /\ (result.is_valid /\ Outcome("primary", "ok")) =>
              result.errors = <<>>

\* a stereo file validated by the fallback reader: valid, one error
C26_Witness ==
    /\ Returned
    /\ result.is_valid
    /\ Len(result.errors) = 1
    /\ Outcome("fallback", "ok")
    /\ result.channels = 2

\* the fixed part of the placeholder transcription record
IsPlaceholder(t) ==
    /\ t.transcription_available = FALSE
    /\ t.transcription_text = ""
    /\ t.confidence_score = 0
    /\ t.quality_metrics =
          [clarity_score |-> 0, noise_level |-> 0,
           speech_to_noise_ratio |-> 0]
    /\ t.validation_status = "PLACEHOLDER_NOT_IMPLEMENTED"

\* the language the record names for a hint
Echoed(hint) == IF hint # "" THEN hint ELSE "unknown"

\* for every hint the record is the fixed one, naming the hint
C23_Record ==
    \A hint \in ALLOWED_LANGUAGES \cup {""} :
        /\ IsPlaceholder(placeholder_transcription_validation(hint))
        /\ placeholder_transcription_validation(hint).language_detected
              = Echoed(hint)

\* when the Verify handler stores a file's result, whatever that result
\* is: its transcription is the fixed record naming the detected language
\* of the session, the validation is the one the call returned, and the
\* validator's list, storage and scope are as they were
C23_Steps ==
    (loop.at = "running" /\ loop'.at # "running") =>
        LET stored == verification_results'[loop.model][Current.name]
        IN  /\ IsPlaceholder(stored.transcription)
            /\ stored.transcription.language_detected
                  = Echoed(Get(session_state, "detected_language", ""))
            /\ Validation(stored) = result
            /\ UNCHANGED <<scope, temp_files, disk, nextPath, result>>

\* C23: placeholder_transcription_validation returns the fixed
\* placeholder record for every file and hint, whatever the validation
\* outcome and the validator's state, with language_detected the hint or
\* 'unknown', and it changes no state of the validator.
C23_PlaceholderIsFixed == []C23_Record /\ [][C23_Steps]_vars

\* both loops have ended with no language detected: the valid result of
\* model1 and the failed result of model2 carry the same record
C23_Witness ==
    /\ loop.at = "finish"
    /\ \E k \in DOMAIN verification_results.model1 :
          /\ verification_results.model1[k].is_valid
          /\ verification_results.model1[k].transcription.language_detected
                = "unknown"
    /\ \E k \in DOMAIN verification_results.model2 :
          /\ ~verification_results.model2[k].is_valid
          /\ verification_results.model2[k].transcription.language_detected
                = "unknown"

\* C25: after the step access check of main(), the current page is Audio
\* Verification only if step Metadata & Audio is completed, and Summary &
\* Submission only if step Audio Verification is completed.
C25_LaterStepNeedsPredecessor ==
    /\ session_state.current_page = AudioVerification =>
          is_step_completed(session_state, MetadataAudio)
    /\ session_state.current_page = SummarySubmission =>
          is_step_completed(session_state, AudioVerification)

\* the Summary page is shown past its prerequisite test of line 1037
SummaryRendered ==
    /\ BetweenRuns
    /\ session_state.current_page = SummarySubmission
    /\ Get(session_state, "audio_verification_complete", FALSE)

\* the statistics of lines 1045-1052 for a model
FilesKey(model) ==
    IF model = "model1" THEN "model1_audio_files" ELSE "model2_audio_files"
ValidCount(model) ==
    Cardinality({k \in DOMAIN session_state.verification_results[model] :
                    session_state.verification_results[model][k].is_valid})

\* C27: whenever the Summary & Submission page is shown, the stored
\* verification_results are those of the audio files saved now: for each
\* model the results are keyed by the names of its saved files, and the
\* valid results are no more than its saved files.
C27_ResultsDescribeSavedFiles ==
    SummaryRendered =>
        \A model \in {"model1", "model2"} :
            /\ DOMAIN session_state.verification_results[model]
                  = NamesOf(session_state[FilesKey(model)])
            /\ ValidCount(model) <= Len(session_state[FilesKey(model)])

\* in a run of main(): submission_complete turns true only with the email
\* validated in that run and a Drive URL generated, and a Drive URL is
\* generated only with the email validated in that run
C28_Steps ==
    /\ (~Get(session_state, "submission_complete", FALSE)
           /\ Get(session_state', "submission_complete", FALSE)) =>
          /\ session_state'.email_validated
          /\ session_state'.drive_url_generated
          /\ session_state'.drive_url # ""
    /\ (~Get(session_state, "drive_url_generated", FALSE)
           /\ Get(session_state', "drive_url_generated", FALSE)) =>
          /\ session_state'.email_validated
          /\ session_state'.drive_url = generate_drive_url_placeholder

\* C28: submission_complete becomes true only in a run in which the email
\* passed the format and the spreadsheet check and a Drive URL has been
\* generated; the Drive URL is generated only while email_validated.
C28_SubmitNeedsEmailAndUrl == [][C28_Steps]_vars

\* the evaluation has been submitted
C28_Witness ==
    /\ Get(session_state, "submission_complete", FALSE)
    /\ session_state.email_validated
    /\ session_state.drive_url_generated
    /\ session_state.current_page = SummarySubmission

\* Start New Evaluation is the one handler that turns submission_complete
\* off: the session is then the nine initial keys with their initial
\* values, and no step is completed
C29_Steps ==
    (Get(session_state, "submission_complete", FALSE)
       /\ ~Get(session_state', "submission_complete", FALSE)) =>
        /\ DOMAIN session_state' = DOMAIN InitialKeys
        /\ session_state'.current_page = MetadataAudio
        /\ \A key \in {"metadata_saved", "audio_saved", "email_validated",
                        "drive_url_generated", "audio_verification_complete",
                        "submission_complete"} : ~session_state'[key]
        /\ session_state'.drive_url = ""
        /\ session_state'.user_email = ""
        /\ \A step \in {MetadataAudio, AudioVerification,
                         SummarySubmission} :
              ~is_step_completed(session_state', step)

\* C29: after Start New Evaluation the current page is Metadata & Audio,
\* the six flags are false, drive_url and user_email are empty, every
\* other session key is removed and no step is completed.
C29_StartNewResets == [][C29_Steps]_vars

\* a session reset after a verification and a submission
C29_Witness ==
    /\ session_state = InitialKeys
    /\ calls > 0

\* the event of an operation in the trace of a finished call
Ev(t, op) == t[CHOOSE i \in DOMAIN t : t[i].op = op]
Raised(t, op) == \E i \in DOMAIN t : t[i].op = op /\ t[i].res = "raise"

\* the result validate_audio_file returns for an upload when it runs
\* alone and the storage and the decoders answer as in trace t
SequentialResult(af, t) ==
    IF Raised(t, "seek")
    THEN Caught("seek", Ev(t, "seek").why, NewResult)
    ELSE IF Raised(t, "create")
    THEN Caught("create", Ev(t, "create").why, NewResult)
    ELSE IF Raised(t, "write")
    THEN Caught("write", Ev(t, "write").why, NewResult)
    ELSE IF af.size = 0 THEN AddError(NewResult, EmptyError)
    ELSE IF Raised(t, "primary")
    THEN LET r1 == Caught("load", Ev(t, "primary").why, NewResult)
             w == Ev(t, "fallback")
         IN  IF w.res = "raise" THEN Caught("wave", w.why, r1)
             ELSE AfterWave(r1, w.n, w.rate, w.ch)
    ELSE LET p == Ev(t, "primary")
             r1 == AfterLoad(NewResult, af.ext, p.n, p.rate)
         IN  IF LoadReturns(p.n, p.rate) THEN r1
             ELSE LET q == Ev(t, "probe")
                      r2 == [r1 EXCEPT !.channels = q.ch]
                  IN  IF q.res = "zero" THEN AddError(r2, NoFramesError)
                      ELSE IF q.res = "raise"
                      THEN [Caught("probe", q.why, r2)
                               EXCEPT !.is_valid = TRUE]
                      ELSE [r2 EXCEPT !.is_valid = TRUE]

\* no call of either thread is in flight
Quiet == pc \in {"idle", "done"} /\ other.pc \in {"idle", "done"}

\* the paths the calls of the two threads staged and appended
StagedBy(call) ==
    IF \E i \in DOMAIN call.trace : call.trace[i].op = "append"
    THEN {call.temp_file} ELSE {}
Staged == StagedBy(ThisCall) \cup StagedBy(other)

\* a call that has returned, in either thread, returned what it returns
\* when it runs alone
C21_State ==
    \A call \in {ThisCall, other} :
        call.pc = "done" =>
            call.result = SequentialResult(call.audio_file, call.trace)

\* a cleanup() with no call in flight leaves temp_files empty and none of
\* the staged files on storage
C21_Steps ==
    (Quiet /\ Quiet' /\ scope = "open"
       /\ <<temp_files, disk, scope>>' # <<temp_files, disk, scope>>) =>
        /\ temp_files' = <<>>
        /\ Staged \cap disk' = {}

C30_Steps ==
    /\ (pc \notin {"idle", "done"} /\ temp_file \in disk) =>
          temp_file \in disk'
    /\ \A path \in Range(temp_files) \ Range(temp_files') :
          path \in sweep.tried

\* C30: when cleanup() is interleaved with validate_audio_file calls on
\* the same instance, cleanup never deletes the staged file of a call that
\* has not returned, and no path leaves temp_files without a deletion of
\* that path having been attempted.
C30_CleanupSparesCallsInFlight == [][C30_Steps]_vars
====
